---------------------------- MODULE Spec2Model ----------------------------
(***************************************************************************)
(* A model of ploy (src/ploy.py): the /hook/<id> request handler, the      *)
(* Target.execute method it calls and the Target and Deployment tables.    *)
(*                                                                         *)
(* Strings that the code slices or compares character by character (the    *)
(* X-Hub-Signature header and the HMAC hex digest) are sequences of        *)
(* one-character strings.  A nullable Python value is a set: {} is None    *)
(* and {v} is the value v.                                                 *)
(***************************************************************************)
EXTENDS Integers, Sequences, FiniteSets, TLC

VARIABLES
    targets,      \* the Target table: a function from stored id to row
    deployments,  \* the Deployment table: the committed rows, in id order
    processes,    \* the OS processes launched by Popen, in launch order
    bodyAttr,     \* whether the framework's request object has a .body attribute
    handled,      \* the number of requests received so far
    pc,           \* per request thread: the handler's position
    request,      \* per request thread: the request being handled
    response,     \* per request thread: the Response returned, or the fault raised
    deployment,   \* per request thread: execute's local Deployment object
    process,      \* per request thread: execute's Popen handle (index in processes)
    stages,       \* per request thread: the stages the request has passed (history)
    saved,        \* per request thread: the ids of the rows the request committed (history)
    before,       \* per request thread: the tables as the request arrived (history)
    savedBy,      \* for each row of deployments, the request that committed it (history)
    launchedBy    \* for each process, the request that launched it (history)

vars == <<targets, deployments, processes, bodyAttr, handled,
          pc, request, response, deployment, process, stages, saved, before,
          savedBy, launchedBy>>

----------------------------------------------------------------------------
(* Bounds of the model.                                                    *)

\* The number of hook requests a behaviour receives.
MaxRequests == 2

\* The request threads of the server.
Threads == {1, 2}

\* The thread that handles requests when they are served one at a time.
MainThread == CHOOSE t \in Threads : \A u \in Threads : t <= u

----------------------------------------------------------------------------
(* Python values.                                                          *)

None == {}

Some(v) == {v}

\* The value held by a non-None nullable.
The(o) == CHOOSE v \in o : TRUE

\* text[n:] of a Python string.
SliceFrom(text, n) ==
    IF Len(text) <= n THEN <<>> ELSE SubSeq(text, n + 1, Len(text))

\* value in list, for a Python list.
Contains(list, value) == \E i \in 1..Len(list) : list[i] = value

\* A JSON column holding a list of strings, and one holding a bare string.
JsonList(items) == [type |-> "list", val |-> items]

JsonStr(text) == [type |-> "str", val |-> text]


----------------------------------------------------------------------------
(* The request: id from the URL, the two headers and the raw body.         *)

\* len("sha1=") characters are cut from the signature header (line 112).
Sha1Prefix == <<"s", "h", "a", "1", "=">>

\* A five-character prefix that is not "sha1=".
Sha2Prefix == <<"s", "h", "a", "2", "=">>

HexDigits == <<"0", "1", "2", "3", "4", "5", "6", "7",
               "8", "9", "a", "b", "c", "d", "e", "f">>

\* A character outside ASCII, as a header decoded as latin-1 can hold.
NonAsciiChar == "U+00E9"

IsAscii(text) == \A i \in 1..Len(text) : text[i] # NonAsciiChar

\* Request bodies: two JSON objects with a ref, one without, and one that
\* is not JSON.
BodyDeploy == "{\"ref\": \"refs/heads/deploy\"}"

BodyMain == "{\"ref\": \"refs/heads/main\"}"

BodyNoRef == "{}"

BodyNotJson == "ref=refs/heads/deploy"

Bodies == <<BodyDeploy, BodyMain, BodyNoRef, BodyNotJson>>

\* Secrets: the one the targets are created with (line 22), one an outsider
\* guesses, and the empty one that --key "" gives.
Keys == <<"test", "guess", "">>

\* The secrets clients sign with.
ClientKeys == {"test", "guess"}

IndexOf(seq, x) == CHOOSE i \in 1..Len(seq) : seq[i] = x

\* hmac.new(key, msg, hashlib.sha1).hexdigest(): a keyed digest, rendered in
\* lowercase hex.  The digest is a table that differs on every (key, msg) of
\* the model, shortened to two hex characters.
hexdigest(key, msg) ==
    LET n == Len(Bodies) * (IndexOf(Keys, key) - 1) + (IndexOf(Bodies, msg) - 1)
    IN  <<HexDigits[(n % Len(HexDigits)) + 1],
          HexDigits[((n + Len(Keys)) % Len(HexDigits)) + 1]>>

\* json.loads(body.decode()) followed by data["ref"] (lines 119-120): the
\* fault raised, or the ref read.
json_loads_ref(body) ==
    CASE body = BodyDeploy  -> [raises |-> "", ref |-> "refs/heads/deploy"]
      [] body = BodyMain    -> [raises |-> "", ref |-> "refs/heads/main"]
      [] body = BodyNoRef   -> [raises |-> "KeyError", ref |-> ""]
      [] OTHER              -> [raises |-> "JSONDecodeError", ref |-> ""]

\* The X-Hub-Signature values a client sends for a body: none, or a prefix
\* followed by a digest of the body under some key, or by text that is not
\* ASCII.
Signatures(body) ==
    {None} \cup
    { Some(prefix \o digest) :
        prefix \in {Sha1Prefix, Sha2Prefix, <<>>},
        digest \in {hexdigest(k, body) : k \in ClientKeys}
                   \cup {<<NonAsciiChar, "0">>} }

\* The X-GitHub-Event values a client sends.
Events == {None, Some("push"), Some("issues")}

\* The ids a client puts in the URL: a stored one and one that is not.
RequestIds == {"site", "blog"}

Requests ==
    UNION { { [id |-> i, sig |-> s, event |-> e, body |-> Bodies[b]] :
                i \in RequestIds, s \in Signatures(Bodies[b]), e \in Events } :
            b \in 1..Len(Bodies) }

NoRequest == [id |-> "", sig |-> None, event |-> None, body |-> ""]

----------------------------------------------------------------------------
(* Responses.                                                              *)

NoResponse == [status |-> 0, mimetype |-> "", raised |-> ""]

\* Response(status=..., mimetype="text/plain").
Response(status) == [status |-> status, mimetype |-> "text/plain", raised |-> ""]

\* An exception that leaves hook: the framework answers 500.
Fault(exception) == [status |-> 500, mimetype |-> "text/html", raised |-> exception]

----------------------------------------------------------------------------
(* The Target table (lines 27-38).                                         *)

\* A timeout of float("inf"), which --timeout accepts (type=float, line 152)
\* and which the wait in communicate cannot convert to a deadline.
Infinity == 1000000

\* Target.timeout: None, a number of seconds, or infinity.
Timeouts == {None, Some(1), Some(Infinity)}

\* Target(id=..., key=..., events=..., refs=..., args=..., timeout=...).
Target(id, enabled, key, events, refs, args, timeout) ==
    [id |-> id, description |-> "", enabled |-> enabled, key |-> key,
     events |-> events, refs |-> refs, args |-> args, timeout |-> timeout]

\* The rows of the stored target.  Its events column is JSON: a list, as
\* "target create" stores it (line 150), or a bare string, the value that
\* line 116 compares the header with.
TargetRows ==
    { Target("site", enabled, "test", events, JsonList(<<"refs/heads/deploy">>),
             <<"true">>, timeout) :
        enabled \in BOOLEAN,
        events \in {JsonList(<<"push">>), JsonStr("push")},
        timeout \in Timeouts }

\* A lookup that falls back to a stored row when the id is not found.
first_or_any(table, id) ==
    IF id \in DOMAIN table
    THEN Some(table[id])
    ELSE {table[k] : k \in {CHOOSE k \in DOMAIN table : TRUE}}

\* Target.query.filter_by(id=id).first(): None, or the row.
first(table, id) == IF id \in DOMAIN table THEN Some(table[id]) ELSE None

----------------------------------------------------------------------------
(* The Deployment table (lines 81-100).                                    *)

\* Deployment(target_id=..., start_time=...): every other attribute is None
\* until it is assigned or the row is inserted.
Deployment(target_id, start_time) ==
    [id |-> None, target_id |-> Some(target_id), start_time |-> Some(start_time),
     elapsed_time |-> None, timed_out |-> None, timeout |-> None,
     raised_exception |-> None, exception |-> None,
     stdout |-> None, stderr |-> None, status |-> None]

NoDeployment == Deployment("", 0)

\* A column default (default=False) fills an attribute left None.
ColumnDefault(value, default) == IF value = None THEN Some(default) ELSE value

\* An INSERT that assigns the id and leaves the attributes as they are.
InsertedRow_without_defaults(table, object) ==
    [object EXCEPT !.id = Some(Len(table) + 1)]

\* The row an INSERT of the object writes: the autoincrement id (line 84)
\* and the column defaults of timed_out and raised_exception (lines 90, 93).
InsertedRow(table, object) ==
    [object EXCEPT !.id = Some(Len(table) + 1),
                   !.timed_out = ColumnDefault(object.timed_out, FALSE),
                   !.raised_exception = ColumnDefault(object.raised_exception, FALSE)]

----------------------------------------------------------------------------
(* hook, lines 107-121: the checks made before the target is executed.     *)

\* hmac.compare_digest(a, b) on two str: TypeError unless both are ASCII.
compare_digest(a, b) ==
    IF IsAscii(a) /\ IsAscii(b)
    THEN [raises |-> "", equal |-> (a = b)]
    ELSE [raises |-> "TypeError", equal |-> FALSE]

\* header != target.events (line 116): a str (or None) against the JSON
\* value of the column.  A str never equals a list.
HeaderDiffers(header, events) ==
    ~(header # None /\ events.type = "str" /\ The(header) = events.val)

\* data["ref"] not in target.refs (line 120).
RefNotIn(ref, refs) == ~Contains(refs.val, ref)

Returns(resp, passed) == [next |-> "return", response |-> resp, passed |-> passed]

Raises(exception, passed) == [next |-> "return", response |-> Fault(exception), passed |-> passed]

Executes(passed) == [next |-> "execute", response |-> NoResponse, passed |-> passed]

\* What hook does with a request up to line 121: the response it returns,
\* the exception it raises, or that it goes on to target.execute().
\* attr says whether the request object has the attribute body that lines
\* 111 and 119 read.  Flask's own request class has none (the raw body is
\* request.data or request.get_data()), so with it line 111 raises
\* AttributeError; an application whose request_class provides body gets
\* past line 111.  An absent X-Hub-Signature header makes .get() return
\* None, which line 112 subscripts.
hook(table, attr, rq) ==
    LET found == first(table, rq.id) IN
    IF found = None
    THEN Returns(Response(404), <<"TargetLookup">>)
    ELSE
    LET target == The(found) IN
    IF ~attr
    THEN Raises("AttributeError", <<"TargetLookup", "SignatureCheck">>)
    ELSE
    LET verification == hexdigest(target.key, rq.body) IN
    IF rq.sig = None
    THEN Raises("TypeError", <<"TargetLookup", "SignatureCheck">>)
    ELSE
    LET offered_verification == SliceFrom(The(rq.sig), Len(Sha1Prefix))
        compared == compare_digest(offered_verification, verification)
    IN
    IF compared.raises # ""
    THEN Raises(compared.raises, <<"TargetLookup", "SignatureCheck">>)
    ELSE IF ~compared.equal
    THEN Returns(Response(404), <<"TargetLookup", "SignatureCheck">>)
    ELSE IF HeaderDiffers(rq.event, target.events)
    THEN Returns(Response(204), <<"TargetLookup", "SignatureCheck", "EventRefCheck">>)
    ELSE
    LET data == json_loads_ref(rq.body) IN
    IF data.raises # ""
    THEN Raises(data.raises, <<"TargetLookup", "SignatureCheck", "EventRefCheck">>)
    ELSE IF RefNotIn(data.ref, target.refs)
    THEN Returns(Response(204), <<"TargetLookup", "SignatureCheck", "EventRefCheck">>)
    ELSE Executes(<<"TargetLookup", "SignatureCheck", "EventRefCheck">>)

----------------------------------------------------------------------------
(* Target.execute, lines 40-78.                                            *)

\* What subprocess.Popen(args=..., stdout=PIPE, stderr=PIPE) can do: start
\* the process or raise.  An empty argument list has no args[0].
PopenOutcomes(args) ==
    IF args = <<>>
    THEN {"IndexError"}
    ELSE {"started", "OSError", "ValueError", "SubprocessError"}

\* The except clauses of lines 50-61 and the text each stores.
PopenCaught == {"OSError", "ValueError", "SubprocessError"}

ExceptionText(exception) ==
    CASE exception = "OSError"    -> "operating system error: [Errno 2]"
      [] exception = "ValueError" -> "failed to open process"
      [] OTHER                    -> "subprocess error: "

\* The bytes a process can leave on a pipe, and bytes.decode(errors="replace").
PipeBytes == {"", "\\xff"}

decode(bytes) == IF bytes = "\\xff" THEN "U+FFFD" ELSE bytes

\* Exit codes of a process.
ReturnCodes == {0, 1}

\* process.communicate(timeout=...) with a timeout that is no finite number
\* of seconds raises OverflowError instead of waiting.
WaitOverflows(timeout) == timeout = Some(Infinity)

\* Lines 51-53, 55-57, 59-61.
LaunchFailed(object, exception) ==
    [object EXCEPT !.raised_exception = Some(TRUE),
                   !.exception = Some(ExceptionText(exception))]

\* Lines 68-70.
TimedOut(object, timeout, elapsed) ==
    [object EXCEPT !.timed_out = Some(TRUE),
                   !.timeout = timeout,
                   !.elapsed_time = Some(elapsed)]

\* Lines 73-76.
Completed(object, proc, elapsed) ==
    [object EXCEPT !.stdout = Some(decode(proc.stdout)),
                   !.stderr = Some(decode(proc.stderr)),
                   !.status = proc.returncode,
                   !.elapsed_time = Some(elapsed)]

----------------------------------------------------------------------------
(* The state machine.                                                      *)

\* The tables as "database create" and one "target create" leave them, and
\* a server that has not received a request.  Which request class the
\* application runs with is fixed when it starts.
Init ==
    /\ targets \in {("site" :> row) : row \in TargetRows}
    /\ deployments = <<>>
    /\ processes = <<>>
    /\ bodyAttr \in BOOLEAN
    /\ handled = 0
    /\ pc = [t \in Threads |-> "idle"]
    /\ request = [t \in Threads |-> NoRequest]
    /\ response = [t \in Threads |-> NoResponse]
    /\ deployment = [t \in Threads |-> NoDeployment]
    /\ process = [t \in Threads |-> 0]
    /\ stages = [t \in Threads |-> <<>>]
    /\ saved = [t \in Threads |-> {}]
    /\ before = [t \in Threads |-> [deployments |-> <<>>, processes |-> <<>>]]
    /\ savedBy = <<>>
    /\ launchedBy = <<>>

\* The target row of the request a thread is handling.
TargetOf(t) == The(first(targets, request[t].id))

\* A thread leaves hook with a response or with an exception.
Leave(t, resp, passed) ==
    /\ pc' = [pc EXCEPT ![t] = "done"]
    /\ response' = [response EXCEPT ![t] = resp]
    /\ stages' = [stages EXCEPT ![t] = @ \o passed]

\* POST /hook/<id> arrives on thread t and runs lines 107-121.
Hook(t, rq) ==
    /\ pc[t] \in {"idle", "done"}
    /\ handled < MaxRequests
    /\ handled' = handled + 1
    /\ request' = [request EXCEPT ![t] = rq]
    /\ deployment' = [deployment EXCEPT ![t] = NoDeployment]
    /\ process' = [process EXCEPT ![t] = 0]
    /\ saved' = [saved EXCEPT ![t] = {}]
    /\ before' = [before EXCEPT ![t] =
                     [deployments |-> deployments, processes |-> processes]]
    /\ LET decided == hook(targets, bodyAttr, rq) IN
       /\ response' = [response EXCEPT ![t] = decided.response]
       /\ IF decided.next = "execute"
          THEN /\ pc' = [pc EXCEPT ![t] = "execute"]
               /\ stages' = [stages EXCEPT ![t] =
                                <<"Received">> \o decided.passed \o <<"Executing">>]
          ELSE /\ pc' = [pc EXCEPT ![t] = "done"]
               /\ stages' = [stages EXCEPT ![t] =
                                <<"Received">> \o decided.passed
                                \o (IF decided.response.raised = ""
                                    THEN <<"Responded">> ELSE <<>>)]
    /\ UNCHANGED <<targets, deployments, processes, bodyAttr, savedBy, launchedBy>>

\* The processes that are running (history: kept in each process record as
\* the processes that ran when it was launched).
Running(procs) == {i \in 1..Len(procs) : procs[i].state = "running"}

\* An executor that holds a lock per target and turns away a request that
\* arrives while another request is executing the same target.
Popen_exclusive(t) ==
    /\ pc[t] = "execute"
    /\ \E u \in Threads \ {t} :
          pc[u] \in {"execute", "communicate", "commit"} /\ request[u].id = request[t].id
    /\ Leave(t, Response(204), <<"Responded">>)
    /\ UNCHANGED <<targets, deployments, processes, bodyAttr, handled, request,
                   deployment, process, saved, before, savedBy, launchedBy>>

\* Lines 43-61: the Deployment object is made and the process is opened.
Popen(t) ==
    /\ pc[t] = "execute"
    /\ LET object == Deployment(TargetOf(t).id, handled) IN
       \E outcome \in PopenOutcomes(TargetOf(t).args) :
          IF outcome = "started"
          THEN /\ processes' = Append(processes,
                                  [args |-> TargetOf(t).args, state |-> "running",
                                   returncode |-> None, stdout |-> "", stderr |-> "",
                                   alongside |-> Running(processes)])
               /\ process' = [process EXCEPT ![t] = Len(processes) + 1]
               /\ launchedBy' = Append(launchedBy, request[t])
               /\ deployment' = [deployment EXCEPT ![t] = object]
               /\ pc' = [pc EXCEPT ![t] = "communicate"]
               /\ UNCHANGED <<response, stages>>
          ELSE IF outcome \in PopenCaught
          THEN /\ deployment' = [deployment EXCEPT ![t] = LaunchFailed(object, outcome)]
               /\ pc' = [pc EXCEPT ![t] = "commit"]
               /\ UNCHANGED <<processes, process, response, stages, launchedBy>>
          ELSE /\ Leave(t, Fault(outcome), <<>>)
               /\ UNCHANGED <<processes, process, deployment, launchedBy>>
    /\ UNCHANGED <<targets, deployments, bodyAttr, handled, request, saved, before,
                   savedBy>>

\* A running process ends by itself.
ProcessExit(p) ==
    /\ p \in 1..Len(processes)
    /\ processes[p].state = "running"
    /\ \E code \in ReturnCodes, out \in PipeBytes :
          processes' = [processes EXCEPT ![p] =
                           [@ EXCEPT !.state = "exited", !.returncode = Some(code),
                                     !.stdout = out]]
    /\ UNCHANGED <<targets, deployments, bodyAttr, handled, pc, request, response,
                   deployment, process, stages, saved, before, savedBy, launchedBy>>

\* Lines 63-76, the process has ended: communicate returns its output.
CommunicateReturns(t) ==
    /\ pc[t] = "communicate"
    /\ ~WaitOverflows(TargetOf(t).timeout)
    /\ processes[process[t]].state = "exited"
    /\ deployment' = [deployment EXCEPT ![t] = Completed(@, processes[process[t]], 0)]
    /\ pc' = [pc EXCEPT ![t] = "commit"]
    /\ UNCHANGED <<targets, deployments, processes, bodyAttr, handled, request,
                   response, process, stages, saved, before, savedBy, launchedBy>>

\* A timeout handler without line 67: the process is left running.
CommunicateTimesOut_without_kill(t) ==
    /\ pc[t] = "communicate"
    /\ TargetOf(t).timeout # None
    /\ ~WaitOverflows(TargetOf(t).timeout)
    /\ processes[process[t]].state = "running"
    /\ deployment' = [deployment EXCEPT ![t] =
                         TimedOut(@, TargetOf(t).timeout, The(TargetOf(t).timeout))]
    /\ pc' = [pc EXCEPT ![t] = "commit"]
    /\ UNCHANGED <<targets, deployments, processes, bodyAttr, handled, request,
                   response, process, stages, saved, before, savedBy, launchedBy>>

\* A wait that gives up on a running process also when timeout is None.
CommunicateTimesOut_unbounded(t) ==
    /\ pc[t] = "communicate"
    /\ ~WaitOverflows(TargetOf(t).timeout)
    /\ processes[process[t]].state = "running"
    /\ processes' = [processes EXCEPT ![process[t]].state = "killed"]
    /\ deployment' = [deployment EXCEPT ![t] = TimedOut(@, TargetOf(t).timeout, 0)]
    /\ pc' = [pc EXCEPT ![t] = "commit"]
    /\ UNCHANGED <<targets, deployments, bodyAttr, handled, request, response,
                   process, stages, saved, before, savedBy, launchedBy>>

\* Lines 66-71, the timeout passes first: the process is killed.
CommunicateTimesOut(t) ==
    /\ pc[t] = "communicate"
    /\ TargetOf(t).timeout # None
    /\ ~WaitOverflows(TargetOf(t).timeout)
    /\ processes[process[t]].state = "running"
    /\ processes' = [processes EXCEPT ![process[t]].state = "killed"]
    /\ deployment' = [deployment EXCEPT ![t] =
                         TimedOut(@, TargetOf(t).timeout, The(TargetOf(t).timeout))]
    /\ pc' = [pc EXCEPT ![t] = "commit"]
    /\ UNCHANGED <<targets, deployments, bodyAttr, handled, request, response,
                   process, stages, saved, before, savedBy, launchedBy>>

\* Line 65 raises an exception that line 66 does not catch.
CommunicateRaises(t) ==
    /\ pc[t] = "communicate"
    /\ WaitOverflows(TargetOf(t).timeout)
    /\ Leave(t, Fault("OverflowError"), <<>>)
    /\ UNCHANGED <<targets, deployments, processes, bodyAttr, handled, request,
                   deployment, process, saved, before, savedBy, launchedBy>>

\* A handler that saves nothing for a webhook it has already saved a row for.
Commit_deduplicating(t) ==
    /\ pc[t] = "commit"
    /\ LET row == InsertedRow(deployments, deployment[t])
           seen == \E i \in 1..Len(savedBy) : savedBy[i] = request[t]
       IN
       /\ deployments' = IF seen THEN deployments ELSE Append(deployments, row)
       /\ savedBy' = IF seen THEN savedBy ELSE Append(savedBy, request[t])
       /\ deployment' = [deployment EXCEPT ![t] = row]
       /\ saved' = [saved EXCEPT ![t] = IF seen THEN @ ELSE @ \cup row.id]
    /\ Leave(t, Response(200), <<"Recorded", "Responded">>)
    /\ UNCHANGED <<targets, processes, bodyAttr, handled, request, process, before,
                   launchedBy>>

\* A handler that writes its row over the newest row of the table.
Commit_overwriting(t) ==
    /\ pc[t] = "commit"
    /\ LET n == Len(deployments)
           row == [InsertedRow(deployments, deployment[t]) EXCEPT
                      !.id = Some(IF n = 0 THEN 1 ELSE n)]
       IN
       /\ deployments' = IF n = 0 THEN <<row>> ELSE [deployments EXCEPT ![n] = row]
       /\ savedBy' = IF n = 0 THEN <<request[t]>> ELSE [savedBy EXCEPT ![n] = request[t]]
       /\ deployment' = [deployment EXCEPT ![t] = row]
       /\ saved' = [saved EXCEPT ![t] = @ \cup row.id]
    /\ Leave(t, Response(200), <<"Recorded", "Responded">>)
    /\ UNCHANGED <<targets, processes, bodyAttr, handled, request, process, before,
                   launchedBy>>

\* Lines 124-127: the row is inserted and 200 is returned.
Commit(t) ==
    /\ pc[t] = "commit"
    /\ LET row == InsertedRow(deployments, deployment[t]) IN
       /\ deployments' = Append(deployments, row)
       /\ deployment' = [deployment EXCEPT ![t] = row]
       /\ saved' = [saved EXCEPT ![t] = @ \cup row.id]
    /\ savedBy' = Append(savedBy, request[t])
    /\ Leave(t, Response(200), <<"Recorded", "Responded">>)
    /\ UNCHANGED <<targets, processes, bodyAttr, handled, request, process, before,
                   launchedBy>>

\* A handler that catches the failure of line 125 and answers 200.
CommitFails_swallowed(t) ==
    /\ pc[t] = "commit"
    /\ Leave(t, Response(200), <<"Responded">>)
    /\ UNCHANGED <<targets, deployments, processes, bodyAttr, handled, request,
                   deployment, process, saved, before, savedBy, launchedBy>>

\* Line 125 fails: the storage refuses the commit and the exception leaves hook.
CommitFails(t) ==
    /\ pc[t] = "commit"
    /\ Leave(t, Fault("OperationalError"), <<>>)
    /\ UNCHANGED <<targets, deployments, processes, bodyAttr, handled, request,
                   deployment, process, saved, before, savedBy, launchedBy>>

\* Requests are served one at a time, on the main thread.
Next ==
    \/ \E rq \in Requests : Hook(MainThread, rq)
    \/ \E t \in Threads : Popen(t)
    \/ \E p \in 1..Len(processes) : ProcessExit(p)
    \/ \E t \in Threads : CommunicateReturns(t)
    \/ \E t \in Threads : CommunicateTimesOut(t)
    \/ \E t \in Threads : CommunicateRaises(t)
    \/ \E t \in Threads : Commit(t)
    \/ \E t \in Threads : CommitFails(t)

Spec == Init /\ [][Next]_vars

\* The webhooks a repository host sends for the stored target: signed with
\* the target's key, with an event and a ref.
SignedRequests ==
    { rq \in Requests :
        /\ rq.id = "site"
        /\ rq.sig = Some(Sha1Prefix \o hexdigest("test", rq.body))
        /\ rq.event # None
        /\ rq.body \in {BodyDeploy, BodyMain} }

\* Requests are served as they arrive, each on a thread of its own.
NextConcurrent ==
    \/ \E t \in Threads, rq \in SignedRequests : Hook(t, rq)
    \/ \E t \in Threads : Popen(t)
    \/ \E p \in 1..Len(processes) : ProcessExit(p)
    \/ \E t \in Threads : CommunicateReturns(t)
    \/ \E t \in Threads : CommunicateTimesOut(t)
    \/ \E t \in Threads : CommunicateRaises(t)
    \/ \E t \in Threads : Commit(t)
    \/ \E t \in Threads : CommitFails(t)

SpecConcurrent == Init /\ [][NextConcurrent]_vars

----------------------------------------------------------------------------
(* main, "target create" (lines 146-153, 162, 188-197).                    *)

\* The command lines an operator types: an id, --key, --timeout and the
\* command to run, which may be left out.
CreateCommands ==
    { [id |-> id, key |-> key, timeout |-> timeout, args |-> args] :
        id \in RequestIds, key \in {"test", ""}, timeout \in {None, Some(1)},
        args \in {<<>>, <<"true">>} }

\* parser.parse_args() (line 162) accepts the command line: --key is given
\* (required=True, whatever its value) and args has at least one item
\* (nargs="+").
parse_args(command) == Len(command.args) >= 1

\* "database" has been run (lines 165-170) and no target has been created.
InitAdmin ==
    /\ targets = <<>>
    /\ deployments = <<>>
    /\ processes = <<>>
    /\ bodyAttr \in BOOLEAN
    /\ handled = 0
    /\ pc = [t \in Threads |-> "idle"]
    /\ request = [t \in Threads |-> NoRequest]
    /\ response = [t \in Threads |-> NoResponse]
    /\ deployment = [t \in Threads |-> NoDeployment]
    /\ process = [t \in Threads |-> 0]
    /\ stages = [t \in Threads |-> <<>>]
    /\ saved = [t \in Threads |-> {}]
    /\ before = [t \in Threads |-> [deployments |-> <<>>, processes |-> <<>>]]
    /\ savedBy = <<>>
    /\ launchedBy = <<>>

\* Lines 188-197: the parsed command is stored as a Target row.  The commit
\* fails for an id that is stored already (primary key, line 30).
TargetCreate(command) ==
    /\ parse_args(command)
    /\ command.id \notin DOMAIN targets
    /\ targets' = targets @@
          (command.id :> Target(command.id, TRUE, command.key, JsonList(<<"push">>),
                                JsonList(<<"refs/heads/deploy">>), command.args,
                                command.timeout))
    /\ UNCHANGED <<deployments, processes, bodyAttr, handled, pc, request, response,
                   deployment, process, stages, saved, before, savedBy, launchedBy>>

\* The operator creates targets while the server answers webhooks.
NextAdmin ==
    \/ \E command \in CreateCommands : TargetCreate(command)
    \/ \E rq \in SignedRequests : Hook(MainThread, rq)

SpecAdmin == InitAdmin /\ [][NextAdmin]_vars

----------------------------------------------------------------------------
(* What the claims speak of, said of the request on a thread.              *)

\* The strings of a JSON column read as a set.
Members(json) ==
    IF json.type = "list" THEN {json.val[i] : i \in 1..Len(json.val)} ELSE {json.val}

Finished(t) == pc[t] = "done"

KnownTarget(t) == request[t].id \in DOMAIN targets

\* "sha1=" followed by the hex digest of the body under the target's key.
SignedHeader(t) == Sha1Prefix \o hexdigest(TargetOf(t).key, request[t].body)

ValidSignature(t) == request[t].sig = Some(SignedHeader(t))

EventAccepted(t) ==
    /\ request[t].event # None
    /\ The(request[t].event) \in Members(TargetOf(t).events)

BodyHasRef(t) == json_loads_ref(request[t].body).raises = ""

RefAccepted(t) ==
    /\ BodyHasRef(t)
    /\ json_loads_ref(request[t].body).ref \in Members(TargetOf(t).refs)

Passed(t, stage) == Contains(stages[t], stage)

\* The rows and processes that exist now and did not when the request arrived.
NewDeployments(t) ==
    {deployments[i] : i \in (Len(before[t].deployments) + 1)..Len(deployments)}

TablesUntouched(t) ==
    /\ deployments = before[t].deployments
    /\ Len(processes) = Len(before[t].processes)

Answered(t, status) == response[t] = Response(status)

----------------------------------------------------------------------------
(* C1 - C5: the checks of hook.                                            *)

\* C1: a request to a known target with a valid signature, an event that is
\* a member of target.events and a body ref that is a member of target.refs,
\* once hook has answered it, was answered 200 after the executor ran and
\* exactly one Deployment, of that target, was saved.
C1_AcceptedRequestDeploys ==
    \A t \in Threads :
        (/\ Finished(t) /\ KnownTarget(t) /\ ValidSignature(t)
         /\ EventAccepted(t) /\ RefAccepted(t)
         /\ response[t].raised = "")
        => /\ Answered(t, 200)
           /\ Passed(t, "Executing")
           /\ Cardinality(saved[t]) = 1
           /\ \A d \in NewDeployments(t) : d.target_id = Some(request[t].id)

\* C2: a request for a known target whose offered signature (the header
\* after its first five characters) is not the hex digest of the body under
\* the target's key gets the response an unknown id gets, 404 text/plain,
\* and neither a process nor a Deployment is made.  Said of the requests
\* whose body the handler could read.
C2_WrongSignatureIs404 ==
    \A t \in Threads :
        (/\ Finished(t) /\ KnownTarget(t) /\ bodyAttr
         /\ request[t].sig # None
         /\ SliceFrom(The(request[t].sig), Len(Sha1Prefix))
                # hexdigest(TargetOf(t).key, request[t].body))
        => /\ response[t] = hook(targets, bodyAttr,
                                 [request[t] EXCEPT !.id = "blog"]).response
           /\ Answered(t, 404)
           /\ TablesUntouched(t)

\* C3: a request for a known target without an X-Hub-Signature header is
\* answered 404, makes no Deployment, and raises nothing.  Said of the
\* requests whose body the handler could read.
C3_AbsentSignatureIs404 ==
    \A t \in Threads :
        (Finished(t) /\ KnownTarget(t) /\ bodyAttr /\ request[t].sig = None)
        => /\ response[t].raised = ""
           /\ Answered(t, 404)
           /\ TablesUntouched(t)

\* C4: a signature header made of five characters other than "sha1="
\* followed by the correct digest fails verification: once hook has answered
\* the request, the answer is 404 and no Deployment was made.
C4_WrongPrefixIs404 ==
    \A t \in Threads :
        (/\ Finished(t) /\ KnownTarget(t)
         /\ request[t].sig = Some(Sha2Prefix \o hexdigest(TargetOf(t).key, request[t].body))
         /\ response[t].raised = "")
        => /\ Answered(t, 404)
           /\ NewDeployments(t) = {}

\* C5: a request with an unknown target id is answered 404, and the
\* Deployment table is as it was and no process was launched.
C5_UnknownTargetIs404 ==
    \A t \in Threads :
        (Finished(t) /\ ~KnownTarget(t))
        => /\ Answered(t, 404)
           /\ TablesUntouched(t)
           /\ process[t] = 0
           /\ saved[t] = {}

\* C5 happens: a request for an id that is not stored has been answered
\* while the table already held a row.
C5_Witness ==
    \E t \in Threads :
        /\ Finished(t) /\ ~KnownTarget(t) /\ request[t].id = "blog"
        /\ Answered(t, 404)
        /\ Len(deployments) > 0

\* C6: a request for a known target with a correct signature whose event is
\* not a member of target.events is answered 204; the executor does not run
\* and no Deployment is made.
C6_EventMismatchIs204 ==
    \A t \in Threads :
        (Finished(t) /\ KnownTarget(t) /\ ValidSignature(t) /\ ~EventAccepted(t))
        => /\ Answered(t, 204)
           /\ ~Passed(t, "Executing")
           /\ TablesUntouched(t)

\* C7: a request for a known target with a correct signature and a matching
\* event whose body ref is not a member of target.refs is answered 204; the
\* executor does not run and no Deployment is made.
C7_RefMismatchIs204 ==
    \A t \in Threads :
        (/\ Finished(t) /\ KnownTarget(t) /\ ValidSignature(t) /\ EventAccepted(t)
         /\ BodyHasRef(t) /\ ~RefAccepted(t))
        => /\ Answered(t, 204)
           /\ ~Passed(t, "Executing")
           /\ TablesUntouched(t)

----------------------------------------------------------------------------
(* C8 - C10: Target.execute and what hook does with its result.            *)

InExecute(position) == position \in {"execute", "communicate"}

\* C8: Target.execute never raises outward: a thread inside execute stays
\* inside it or comes back to hook with a Deployment to commit.
C8_ExecuteNeverRaises ==
    [][\A t \in Threads :
          InExecute(pc[t]) => (InExecute(pc'[t]) \/ pc'[t] = "commit")]_vars

IsCompleted(d) ==
    /\ d.elapsed_time # None /\ d.status # None
    /\ d.stdout # None /\ d.stderr # None
    /\ d.timed_out = Some(FALSE) /\ d.raised_exception = Some(FALSE)

IsTimedOut(d) ==
    /\ d.timed_out = Some(TRUE) /\ d.timeout # None /\ d.elapsed_time # None
    /\ d.status = None /\ d.stdout = None /\ d.stderr = None

IsLaunchFailed(d) ==
    /\ d.raised_exception = Some(TRUE) /\ d.exception # None
    /\ d.elapsed_time = None /\ d.status = None
    /\ d.stdout = None /\ d.stderr = None

Shapes(d) ==
    (IF IsCompleted(d) THEN {"Completed"} ELSE {})
    \cup (IF IsTimedOut(d) THEN {"TimedOut"} ELSE {})
    \cup (IF IsLaunchFailed(d) THEN {"LaunchFailed"} ELSE {})

\* C9: every Deployment that execute returned and hook persisted has exactly
\* one of the shapes Completed, TimedOut and LaunchFailed.
C9_OneOutcomeShape ==
    \A i \in 1..Len(deployments) : Cardinality(Shapes(deployments[i])) = 1

\* C9 happens: the table holds a TimedOut row and a row of another shape.
C9_Witness ==
    /\ \E i \in 1..Len(deployments) : IsTimedOut(deployments[i])
    /\ \E i \in 1..Len(deployments) :
          IsCompleted(deployments[i]) \/ IsLaunchFailed(deployments[i])

\* C10: a request that reached Executing and that the storage did not
\* refuse passes through Recorded and is answered 200, whatever the
\* execution produced.
C10_ExecutingIsRecorded ==
    \A t \in Threads :
        (Finished(t) /\ Passed(t, "Executing") /\ response[t].raised # "OperationalError")
        => /\ Passed(t, "Recorded")
           /\ Cardinality(saved[t]) = 1
           /\ Answered(t, 200)

----------------------------------------------------------------------------
(* C11 - C14: what hook does to the tables.                                *)

\* C11: a disabled target is never executed: no request for a target whose
\* enabled flag is false reaches the executor, launches a process or saves a
\* Deployment.
C11_DisabledNeverExecutes ==
    \A t \in Threads :
        (KnownTarget(t) /\ ~TargetOf(t).enabled)
        => /\ ~Passed(t, "Executing")
           /\ process[t] = 0
           /\ saved[t] = {}

\* C12: a request whose execution was attempted and whose Deployment was not
\* persisted is not answered 200, 204 or 404: the failure leaves hook.
C12_SaveFailurePropagates ==
    \A t \in Threads :
        (Finished(t) /\ Passed(t, "Executing") /\ saved[t] = {})
        => /\ response[t].status \notin {200, 204, 404}
           /\ response[t].raised # ""

\* C12 happens: execute returned a Deployment, the commit was refused and
\* the request ended with the storage's exception.
C12_Witness ==
    \E t \in Threads :
        /\ Finished(t) /\ Passed(t, "Executing") /\ saved[t] = {}
        /\ deployment[t] # NoDeployment
        /\ Cardinality(Shapes(InsertedRow(deployments, deployment[t]))) = 1
        /\ response[t] = Fault("OperationalError")

\* The row a request answered 200 committed is in the table under its id.
OwnRow(t) ==
    /\ Cardinality(saved[t]) = 1
    /\ \A j \in saved[t] :
          /\ j \in 1..Len(deployments)
          /\ deployments[j].id = Some(j)
          /\ deployments[j].target_id = Some(request[t].id)
          /\ savedBy[j] = request[t]

\* C13: no deduplication: every handling of an accepted webhook saves a row
\* of its own, also when the identical webhook was handled before, and of
\* two rows saved for identical webhooks the later has the greater id.
C13_NoDeduplication ==
    /\ \A t \in Threads : (Finished(t) /\ Answered(t, 200)) => OwnRow(t)
    /\ \A i, j \in 1..Len(deployments) :
          (i < j /\ savedBy[i] = savedBy[j])
          => /\ deployments[i] # deployments[j]
             /\ The(deployments[i].id) < The(deployments[j].id)

\* C13 happens: the identical webhook was handled twice and both handlings
\* were answered 200.
C13_Witness ==
    \E t \in Threads :
        /\ Finished(t) /\ Answered(t, 200)
        /\ \E i, j \in 1..Len(deployments) :
              i < j /\ savedBy[i] = request[t] /\ savedBy[j] = request[t]

\* C14: Deployments are append-only under hook handling: no step removes or
\* changes a row that was persisted, and no request saves more than one row.
C14_AppendOnly ==
    [][/\ Len(deployments') >= Len(deployments)
       /\ \A i \in 1..Len(deployments) : deployments'[i] = deployments[i]
       /\ \A t \in Threads : Cardinality(saved'[t]) <= 1]_vars

\* C14 happens: a request has saved a row into a table that held one, and
\* the older row is there as it was when the request arrived.
C14_Witness ==
    \E t \in Threads :
        /\ Finished(t) /\ Answered(t, 200)
        /\ Len(before[t].deployments) > 0
        /\ Len(deployments) = Len(before[t].deployments) + 1
        /\ \A i \in 1..Len(before[t].deployments) :
              deployments[i] = before[t].deployments[i]

----------------------------------------------------------------------------
(* C15 - C16: the timeout of Target.execute.                               *)

\* execute has come back to hook with a Deployment on thread t.
ExecuteReturned(t) ==
    /\ Passed(t, "Executing")
    /\ \/ pc[t] = "commit"
       \/ Finished(t) /\ response[t].raised \in {"", "OperationalError"}

\* C15: when the target has a timeout and the process has not ended within
\* it, execute has killed the process before it returns, and returns a
\* TimedOut Deployment whose timeout is target.timeout: once execute has
\* returned, the process of a target with a timeout is not running, and it
\* was killed exactly when the Deployment says timed_out.
C15_TimeoutKills ==
    \A t \in Threads :
        (/\ ExecuteReturned(t) /\ process[t] # 0
         /\ TargetOf(t).timeout # None /\ ~WaitOverflows(TargetOf(t).timeout))
        => LET p == processes[process[t]] IN
           /\ p.state # "running"
           /\ (p.state = "killed") <=> (deployment[t].timed_out = Some(TRUE))
           /\ (p.state = "killed")
              => /\ deployment[t].timeout = TargetOf(t).timeout
                 /\ IsTimedOut(InsertedRow(deployments, deployment[t]))

\* C15 happens: the timeout passed, the process was killed and the TimedOut
\* Deployment was saved.
C15_Witness ==
    \E t \in Threads :
        /\ Finished(t) /\ Answered(t, 200) /\ process[t] # 0
        /\ processes[process[t]].state = "killed"
        /\ deployment[t].timed_out = Some(TRUE)
        /\ deployment[t].timeout = Some(1)

\* C16: when target.timeout is absent, execute returns only a Completed
\* Deployment of a process that has exited, or a LaunchFailed one when no
\* process was started; it never returns TimedOut and no process of the
\* target is ever killed.
C16_NoTimeoutWaits ==
    /\ \A t \in Threads :
          (ExecuteReturned(t) /\ TargetOf(t).timeout = None)
          => LET row == InsertedRow(deployments, deployment[t]) IN
             /\ deployment[t].timed_out # Some(TRUE)
             /\ process[t] = 0 => IsLaunchFailed(row)
             /\ process[t] # 0 => /\ processes[process[t]].state = "exited"
                                  /\ IsCompleted(row)
    /\ \A p \in 1..Len(processes) :
          (The(first(targets, launchedBy[p].id)).timeout = None)
          => processes[p].state # "killed"

\* C16 happens: a target without a timeout was executed, its process ended
\* by itself and the Completed Deployment was saved.
C16_Witness ==
    \E t \in Threads :
        /\ Finished(t) /\ Answered(t, 200) /\ TargetOf(t).timeout = None
        /\ process[t] # 0
        /\ processes[process[t]].state = "exited"
        /\ IsCompleted(deployment[t])

----------------------------------------------------------------------------
(* C17: requests handled concurrently (SpecConcurrent).                    *)

\* Two threads handle requests for the same target and the process of the
\* one was running when the process of the other was launched.
Overlapped(t, u) ==
    /\ t # u
    /\ request[t].id = request[u].id
    /\ process[t] # 0 /\ process[u] # 0
    /\ process[u] \in processes[process[t]].alongside

\* C17: there is no mutual exclusion per target: a request that reached the
\* executor is not turned away because another request is executing the
\* same target, and every request that was answered has saved a row of its
\* own, distinct from the rows of the other requests.
C17_NoMutualExclusion ==
    /\ \A t \in Threads :
          (Finished(t) /\ Passed(t, "Executing") /\ response[t].raised = "")
          => (Answered(t, 200) /\ OwnRow(t))
    /\ \A t, u \in Threads :
          (t # u /\ Finished(t) /\ Finished(u) /\ Answered(t, 200) /\ Answered(u, 200))
          => saved[t] \cap saved[u] = {}

\* C17 happens: two requests for the same target were in execute with two
\* processes running at once, and each has saved its own Deployment.
C17_Witness ==
    \E t, u \in Threads :
        /\ Overlapped(t, u)
        /\ Finished(t) /\ Finished(u) /\ Answered(t, 200) /\ Answered(u, 200)
        /\ OwnRow(t) /\ OwnRow(u)
        /\ saved[t] \cap saved[u] = {}

----------------------------------------------------------------------------
(* C18: the rows "target create" stores (SpecAdmin).                       *)

\* C18: every stored Target has a non-empty args sequence and a non-empty
\* key: a create with no args or with an empty key stores nothing.
C18_TargetsWellFormed ==
    \A id \in DOMAIN targets :
        /\ targets[id].args # <<>>
        /\ targets[id].key # ""

----------------------------------------------------------------------------
(* C19: what has been executed, against the request it was executed for.   *)

\* The request names a stored target, carries "sha1=" and the digest of its
\* body under that target's key, names one of the target's events and a ref
\* the target listens to.
Authentic(rq) ==
    /\ rq.id \in DOMAIN targets
    /\ rq.sig = Some(Sha1Prefix \o hexdigest(targets[rq.id].key, rq.body))
    /\ rq.event # None
    /\ The(rq.event) \in Members(targets[rq.id].events)
    /\ json_loads_ref(rq.body).raises = ""
    /\ json_loads_ref(rq.body).ref \in Members(targets[rq.id].refs)

ChecksInOrder(t) ==
    /\ Len(stages[t]) >= 5
    /\ SubSeq(stages[t], 1, 5) =
          <<"Received", "TargetLookup", "SignatureCheck", "EventRefCheck", "Executing">>

============================================================================
